---- MODULE Spec2Model ----
(***************************************************************************)
(* Model of rabbit/predictor/core.py: the ContributorResult dataclass,     *)
(* compute_activity_sequences (the ghmap wrapper that redirects stdout,    *)
(* maps events to actions to activities and filters the captured output)   *)
(* and predict_user_type (normalise, short-circuit on no activity,         *)
(* extract features, classify, build the result).                          *)
(*                                                                         *)
(* The collaborators that core.py calls (load_json_file, ActionMapper,     *)
(* ActivityMapper, ActivityFeatureExtractor, Predictor) are the            *)
(* environment: each call either returns a value chosen from a bounded set *)
(* or raises.                                                              *)
(***************************************************************************)
EXTENDS Integers, Sequences, FiniteSets, TLC

\* ------------------------------------------------------------------ bounds
MaxEvents == 2           \* longest event list handed to a call
MaxCalls == 2            \* calls made by one process
MaxRows == 1             \* rows of the DataFrame the extractor returns
MaxPipelineChunks == 1   \* pieces of text the mappers print in one call (Spec)
MaxChunks == 4           \* pieces of text the mappers print (SpecNormalizer)

\* ------------------------------------------------------------- input sets
Usernames == {"alice", "bob"}
Channels == {"console", "file"}
FeatureSchema == {"feat_a", "feat_b"}
FeatureValues == {0, 1}
ClassifierLabels == {"Bot", "Human", "Unknown", "Invalid", "Organization"}
Confidences == {"0.13", "0.87"}
ResultTypes == {"Bot", "Human", "Unknown", "Invalid"}

SeqsUpTo(S, n) == UNION {[1..k -> S] : k \in 0..n}

Events == [type : {"PushEvent"}, actor : Usernames]
EventLists == SeqsUpTo(Events, MaxEvents)

Contributors(evs) == {evs[i].actor : i \in 1..Len(evs)}
MultiContributor(evs) == Cardinality(Contributors(evs)) >= 2

RECURSIVE SubSeqs(_)
SubSeqs(s) ==
  IF s = <<>> THEN {<<>>}
  ELSE LET rest == SubSeqs(Tail(s))
       IN rest \cup {<<Head(s)>> \o r : r \in rest}

Count(s, x) == Cardinality({i \in 1..Len(s) : s[i] = x})
IndexOf(s, x) == CHOOSE i \in 1..Len(s) : s[i] = x /\ \A j \in 1..(i-1) : s[j] # x
Last(s) == s[Len(s)]

\* ---------------------------------------------------------- text (str ops)
\* A text is a sequence of Unicode code points.
\* "Warning: Unused actions"
Marker == <<87, 97, 114, 110, 105, 110, 103, 58, 32, 85, 110, 117, 115, 101, 100, 32,
            97, 99, 116, 105, 111, 110, 115>>
\* The line boundaries of str.splitlines: LF, VT, FF, CR, FS, GS, RS, NEL, LS, PS.
LineBreaks == {10, 11, 12, 13, 28, 29, 30, 133, 8232, 8233}
\* The characters str.strip() removes (those for which str.isspace holds).
Whitespace == (9..13) \cup (28..32) \cup {133, 160, 5760} \cup (8192..8202)
                \cup {8232, 8233, 8239, 8287, 12288}
\* What the mappers print is made of: the marker, LF, space, the letter x, VT.
Chunks == {Marker, <<10>>, <<32>>, <<120>>, <<11>>}

\* str.splitlines(): cut at every line boundary, CR LF counting as one; no
\* empty last line after a final boundary.
IsBoundary(s, i) ==
  s[i] \in LineBreaks /\ ~(s[i] = 10 /\ i > 1 /\ s[i-1] = 13)
AfterBoundary(s, i) ==
  IF s[i] = 13 /\ i < Len(s) /\ s[i+1] = 10 THEN i + 2 ELSE i + 1
SplitLines(s) ==
  LET bounds == {i \in 1..Len(s) : IsBoundary(s, i)}
      nth(k) == CHOOSE i \in bounds : Cardinality({j \in bounds : j < i}) = k - 1
      start(k) == IF k = 1 THEN 1 ELSE AfterBoundary(s, nth(k - 1))
      n == Cardinality(bounds)
      ended == [k \in 1..n |-> SubSeq(s, start(k), nth(k) - 1)]
  IN IF start(n + 1) <= Len(s)
     THEN Append(ended, SubSeq(s, start(n + 1), Len(s)))
     ELSE ended

\* `sub in s` and s.index(sub) (1-based here; 0 when absent).
OccursAt(s, i, sub) ==
  i + Len(sub) - 1 <= Len(s) /\ SubSeq(s, i, i + Len(sub) - 1) = sub
Contains(s, sub) == \E i \in 1..Len(s) : OccursAt(s, i, sub)
Index(s, sub) ==
  IF Contains(s, sub)
  THEN CHOOSE i \in 1..Len(s) :
         OccursAt(s, i, sub) /\ \A j \in 1..(i-1) : ~OccursAt(s, j, sub)
  ELSE 0

\* str.strip(): drop leading and trailing whitespace.
RECURSIVE LStrip(_)
LStrip(s) == IF s # <<>> /\ Head(s) \in Whitespace THEN LStrip(Tail(s)) ELSE s
RECURSIVE RStrip(_)
RStrip(s) ==
  IF s # <<>> /\ Last(s) \in Whitespace THEN RStrip(SubSeq(s, 1, Len(s) - 1)) ELSE s
Strip(s) == RStrip(LStrip(s))

\* Lines 72-77: the loop that accumulates `text`.
KeepLine(line) == Contains(line, Marker)
CutAtMarker(line) == SubSeq(line, Index(line, Marker), Len(line))
RECURSIVE FilterLinesReversed(_, _)
FilterLinesReversed(lines, text) ==
  IF lines = <<>> THEN text
  ELSE LET line == Head(lines)
           kept == IF KeepLine(line)
                   THEN CutAtMarker(line) \o <<10>> \o text
                   ELSE text
       IN FilterLinesReversed(Tail(lines), kept)
RECURSIVE FilterLines(_, _)
FilterLines(lines, text) ==
  IF lines = <<>> THEN text
  ELSE LET line == Head(lines)
           kept == IF KeepLine(line)
                   THEN text \o CutAtMarker(line) \o <<10>>
                   ELSE text
       IN FilterLines(Tail(lines), kept)

\* Lines 69-80: the 'ghmap output' debug messages emitted for a captured text.
GhmapMessages(captured) ==
  IF captured # <<>>
  THEN LET text == FilterLines(SplitLines(captured), <<>>)
       IN IF text # <<>> THEN <<Strip(text)>> ELSE <<>>
  ELSE <<>>

\* ------------------------------------------------------- ContributorResult
Attributes == {"contributor", "user_type", "confidence", "features"}
EmptyMap == << >>
ContributorResultSwapped(contributor, user_type, confidence, features) ==
  [contributor |-> contributor, user_type |-> confidence,
   confidence |-> user_type, features |-> features]
ContributorResult(contributor, user_type, confidence, features) ==
  [contributor |-> contributor, user_type |-> user_type,
   confidence |-> confidence, features |-> features]
\* The dataclass default (line 37) used when the features argument is left
\* out, as at line 124.
DefaultFeatures == EmptyMap

\* What a caller may assign to an attribute of a result it holds.
Assignments ==
  { [attr |-> "contributor", value |-> "mallory"],
    [attr |-> "user_type", value |-> "Bot"],
    [attr |-> "confidence", value |-> "-"],
    [attr |-> "features", value |-> EmptyMap] }
NoAssignment == [attr |-> "", value |-> ""]

\* ------------------------------------------------- collaborators' outputs
\* ActionMapper.map / ActivityMapper.map: some of the input records map to an
\* output record, in order; possibly none.
ActionMapOutputs(evs) ==
  { [j \in 1..Len(sub) |-> [kind |-> "action", actor |-> sub[j].actor]] :
      sub \in SubSeqs(evs) }
ActivityMapOutputs(acts) ==
  { [j \in 1..Len(sub) |-> [kind |-> "activity", actor |-> sub[j].actor]] :
      sub \in SubSeqs(acts) }

\* What a mapper may print while it runs: up to n chunks, concatenated.
RECURSIVE Concat(_)
Concat(ss) == IF ss = <<>> THEN <<>> ELSE Head(ss) \o Concat(Tail(ss))
Printed(n) == SeqsUpTo(Chunks, n)

\* The DataFrame compute_features returns: either no columns or the feature
\* schema, and up to MaxRows rows.
DataFrames ==
  UNION { { [columns |-> cols, rows |-> rows] :
              rows \in SeqsUpTo([cols -> FeatureValues], MaxRows) } :
          cols \in {{}, FeatureSchema} }
NoFrame == [columns |-> {}, rows |-> <<>>]
\* DataFrame.empty: some axis has length zero.
DfEmpty(df) == df.columns = {} \/ Len(df.rows) = 0
\* Line 131.
FeaturesDictAlwaysEmpty(df) == EmptyMap
FeaturesDict(df) == IF ~DfEmpty(df) THEN df.rows[1] ELSE EmptyMap

\* The exception each collaborator raises when it fails.
Raises(step) ==
  CASE step = "load_event_to_action" -> "FileNotFoundError"
    [] step = "action_map" -> "KeyError"
    [] step = "load_action_to_activity" -> "JSONDecodeError"
    [] step = "activity_map" -> "TypeError"
    [] step = "compute_features" -> "ValueError"
    [] step = "predict" -> "RuntimeError"

\* ------------------------------------------------------------------ state
VARIABLES
  pc,             \* where the process is
  entry,          \* the function the caller called
  calls,          \* calls made so far by the process
  username,       \* predict_user_type's argument
  events,         \* the events argument
  stdout,         \* sys.stdout
  old_targets,    \* redirect_stdout's stack of saved targets
  stdout_at_call, \* sys.stdout when the current call began
  capture,        \* stdout_capture's contents
  written,        \* chunks printed by the mappers in this call
  actions,        \* compute_activity_sequences' local
  mapped,         \* compute_activity_sequences' local `activities`
  activities,     \* predict_user_type's local
  features_df,    \* predict_user_type's local
  ghmap_log,      \* 'ghmap output' debug messages emitted by this call (the
                  \* count messages of lines 60, 68 and 123 are not recorded)
  callLog,        \* collaborators invoked by this call, in order
  exc,            \* the exception in flight or delivered to the caller
  outcome,        \* how the call ended: "none", "returned" or "raised"
  result,         \* <<r>>: the ContributorResult the caller holds
  returned,       \* the list compute_activity_sequences returned to the caller
  last_assign,    \* the caller's last attribute assignment
  ev_loads,       \* loads of event_to_action.json by the process
  act_loads       \* loads of action_to_activity.json by the process

vars == <<pc, entry, calls, username, events, stdout, old_targets, stdout_at_call,
          capture, written, actions, mapped, activities, features_df, ghmap_log,
          callLog, exc, outcome, result, returned, last_assign, ev_loads, act_loads>>

BlockPcs == {"load_event_to_action", "action_map", "load_action_to_activity",
             "activity_map", "filter_output"}
AfterNormalizerPcs == {"check_activities", "compute_features", "predict"}
RestPcs == {"idle", "done", "assigned"}

Init ==
  /\ pc = "idle" /\ entry = "" /\ calls = 0
  /\ username = "" /\ events = <<>>
  /\ stdout \in Channels /\ old_targets = <<>> /\ stdout_at_call = stdout
  /\ capture = <<>> /\ written = 0
  /\ actions = <<>> /\ mapped = <<>> /\ activities = <<>>
  /\ features_df = NoFrame
  /\ ghmap_log = <<>> /\ callLog = <<>>
  /\ exc = "" /\ outcome = "none"
  /\ result = <<>> /\ returned = <<>> /\ last_assign = NoAssignment
  /\ ev_loads = 0 /\ act_loads = 0

\* Lines 54-55: a fresh StringIO, and redirect_stdout.__enter__ saves the
\* current target and installs the buffer. Run at the start of every call.
EnterCall(fn, user, evs, limit) ==
  /\ pc \in RestPcs
  /\ calls < limit
  /\ calls' = calls + 1
  /\ entry' = fn /\ username' = user /\ events' = evs
  /\ stdout_at_call' = stdout
  /\ old_targets' = Append(old_targets, stdout)
  /\ stdout' = "capture"
  /\ capture' = <<>> /\ written' = 0
  /\ actions' = <<>> /\ mapped' = <<>> /\ activities' = <<>>
  /\ features_df' = NoFrame
  /\ ghmap_log' = <<>> /\ callLog' = <<>>
  /\ exc' = "" /\ outcome' = "none"
  /\ result' = <<>> /\ returned' = <<>> /\ last_assign' = NoAssignment
  /\ pc' = "load_event_to_action"
  /\ UNCHANGED <<ev_loads, act_loads>>

\* predict_user_type(username, events, predictor), line 120.
CallPredictUserType(limit) ==
  \E user \in Usernames, evs \in EventLists :
    EnterCall("predict_user_type", user, evs, limit)

\* compute_activity_sequences(events) called directly.
CallComputeActivitySequences(limit) ==
  \E evs \in EventLists : EnterCall("compute_activity_sequences", "", evs, limit)

\* A collaborator raises: the exception is in flight.
Raise(step) ==
  /\ exc' = Raises(step)
  /\ pc' = "raising"

\* Lines 56-57.
LoadEventToActionCached ==
  /\ pc = "load_event_to_action"
  /\ IF ev_loads = 0
     THEN /\ ev_loads' = ev_loads + 1
          /\ callLog' = Append(callLog, "load_event_to_action")
     ELSE UNCHANGED <<ev_loads, callLog>>
  /\ \/ pc' = "action_map" /\ UNCHANGED exc
     \/ ev_loads = 0 /\ Raise("load_event_to_action")
  /\ UNCHANGED <<entry, calls, username, events, stdout, old_targets, stdout_at_call,
                 capture, written, actions, mapped, activities, features_df,
                 ghmap_log, outcome, result, returned, last_assign, act_loads>>
LoadEventToAction ==
  /\ pc = "load_event_to_action"
  /\ ev_loads' = ev_loads + 1
  /\ callLog' = Append(callLog, "load_event_to_action")
  /\ \/ pc' = "action_map" /\ UNCHANGED exc
     \/ Raise("load_event_to_action")
  /\ UNCHANGED <<entry, calls, username, events, stdout, old_targets, stdout_at_call,
                 capture, written, actions, mapped, activities, features_df,
                 ghmap_log, outcome, result, returned, last_assign, act_loads>>

\* A mapper prints to sys.stdout: the text lands in the buffer while the
\* redirection is in place.
WriteStdout(text) == IF stdout = "capture" THEN capture \o text ELSE capture

\* Lines 58-60.
ActionMap(limit) ==
  /\ pc = "action_map"
  /\ callLog' = Append(callLog, "action_map")
  /\ \E out \in Printed(limit - written) :
       /\ capture' = WriteStdout(Concat(out))
       /\ written' = written + Len(out)
  /\ \/ \E acts \in ActionMapOutputs(events) :
          actions' = acts /\ pc' = "load_action_to_activity" /\ UNCHANGED exc
     \/ Raise("action_map") /\ UNCHANGED actions
  /\ UNCHANGED <<entry, calls, username, events, stdout, old_targets, stdout_at_call,
                 mapped, activities, features_df, ghmap_log, outcome, result,
                 returned, last_assign, ev_loads, act_loads>>

\* Lines 62-65.
LoadActionToActivity ==
  /\ pc = "load_action_to_activity"
  /\ act_loads' = act_loads + 1
  /\ callLog' = Append(callLog, "load_action_to_activity")
  /\ \/ pc' = "activity_map" /\ UNCHANGED exc
     \/ Raise("load_action_to_activity")
  /\ UNCHANGED <<entry, calls, username, events, stdout, old_targets, stdout_at_call,
                 capture, written, actions, mapped, activities, features_df,
                 ghmap_log, outcome, result, returned, last_assign, ev_loads>>

\* Lines 66-68.
ActivityMap(limit) ==
  /\ pc = "activity_map"
  /\ callLog' = Append(callLog, "activity_map")
  /\ \E out \in Printed(limit - written) :
       /\ capture' = WriteStdout(Concat(out))
       /\ written' = written + Len(out)
  /\ \/ \E acts \in ActivityMapOutputs(actions) :
          mapped' = acts /\ pc' = "filter_output" /\ UNCHANGED exc
     \/ Raise("activity_map") /\ UNCHANGED mapped
  /\ UNCHANGED <<entry, calls, username, events, stdout, old_targets, stdout_at_call,
                 actions, activities, features_df, ghmap_log, outcome, result,
                 returned, last_assign, ev_loads, act_loads>>

\* redirect_stdout.__exit__: put back the target saved on entry.
RestoreToConsole(targets) == "console"
RestoredStdout(targets) == Last(targets)

\* The with block ends normally, then lines 69-82: filter the captured text,
\* log it, return the activities; the function's locals are gone after it.
FilterOutput ==
  /\ pc = "filter_output"
  /\ stdout' = RestoredStdout(old_targets)
  /\ old_targets' = SubSeq(old_targets, 1, Len(old_targets) - 1)
  /\ ghmap_log' = ghmap_log \o GhmapMessages(capture)
  /\ IF entry = "predict_user_type"
     THEN /\ activities' = mapped
          /\ pc' = "check_activities"
          /\ UNCHANGED <<returned, outcome, events>>
     ELSE /\ returned' = mapped
          /\ outcome' = "returned"
          /\ events' = <<>>
          /\ pc' = "done"
          /\ UNCHANGED activities
  /\ capture' = <<>> /\ written' = 0 /\ actions' = <<>> /\ mapped' = <<>>
  /\ UNCHANGED <<entry, calls, username, stdout_at_call, features_df, callLog, exc,
                 result, last_assign, ev_loads, act_loads>>

\* Lines 121-124: no activity, so the result is Unknown and nothing else runs.
CheckActivitiesNoShortCircuit ==
  /\ pc = "check_activities"
  /\ pc' = "compute_features"
  /\ UNCHANGED <<result, outcome, username, events, activities>>
  /\ UNCHANGED <<entry, calls, stdout, old_targets, stdout_at_call, capture, written,
                 actions, mapped, features_df, ghmap_log, callLog, exc, returned,
                 last_assign, ev_loads, act_loads>>
CheckActivities ==
  /\ pc = "check_activities"
  /\ IF Len(activities) = 0
     THEN /\ result' = <<ContributorResult(username, "Unknown", "-", DefaultFeatures)>>
          /\ outcome' = "returned"
          /\ username' = "" /\ events' = <<>> /\ activities' = <<>>
          /\ pc' = "done"
     ELSE /\ pc' = "compute_features"
          /\ UNCHANGED <<result, outcome, username, events, activities>>
  /\ UNCHANGED <<entry, calls, stdout, old_targets, stdout_at_call, capture, written,
                 actions, mapped, features_df, ghmap_log, callLog, exc, returned,
                 last_assign, ev_loads, act_loads>>

\* Lines 126-127.
ComputeFeatures ==
  /\ pc = "compute_features"
  /\ callLog' = Append(callLog, "compute_features")
  /\ \/ \E df \in DataFrames :
          features_df' = df /\ pc' = "predict" /\ UNCHANGED exc
     \/ Raise("compute_features") /\ UNCHANGED features_df
  /\ UNCHANGED <<entry, calls, username, events, stdout, old_targets, stdout_at_call,
                 capture, written, actions, mapped, activities, ghmap_log, outcome,
                 result, returned, last_assign, ev_loads, act_loads>>

\* Lines 129-132: classify, then build and return the result.
Predict ==
  /\ pc = "predict"
  /\ callLog' = Append(callLog, "predict")
  /\ \/ \E user_type \in ClassifierLabels, confidence \in Confidences :
          /\ result' = <<ContributorResult(username, user_type, confidence,
                                           FeaturesDict(features_df))>>
          /\ outcome' = "returned"
          /\ username' = "" /\ events' = <<>> /\ activities' = <<>>
          /\ features_df' = NoFrame
          /\ pc' = "done"
          /\ UNCHANGED exc
     \/ /\ Raise("predict")
        /\ UNCHANGED <<result, outcome, username, events, activities, features_df>>
  /\ UNCHANGED <<entry, calls, stdout, old_targets, stdout_at_call, capture, written,
                 actions, mapped, ghmap_log, returned, last_assign, ev_loads,
                 act_loads>>

\* An exception in flight leaves the with block (redirect_stdout.__exit__ puts
\* the saved target back) and every frame of the call, and reaches the caller.
PropagateSwallowed ==
  /\ pc = "raising"
  /\ IF old_targets # <<>>
     THEN /\ stdout' = RestoredStdout(old_targets)
          /\ old_targets' = SubSeq(old_targets, 1, Len(old_targets) - 1)
     ELSE UNCHANGED <<stdout, old_targets>>
  /\ outcome' = "returned"
  /\ exc' = ""
  /\ IF entry = "predict_user_type"
     THEN result' = <<ContributorResult(username, "Unknown", "-", DefaultFeatures)>>
     ELSE UNCHANGED result
  /\ pc' = "done"
  /\ username' = "" /\ events' = <<>> /\ activities' = <<>> /\ features_df' = NoFrame
  /\ capture' = <<>> /\ written' = 0 /\ actions' = <<>> /\ mapped' = <<>>
  /\ UNCHANGED <<entry, calls, stdout_at_call, ghmap_log, callLog,
                 returned, last_assign, ev_loads, act_loads>>
Propagate ==
  /\ pc = "raising"
  /\ IF old_targets # <<>>
     THEN /\ stdout' = RestoredStdout(old_targets)
          /\ old_targets' = SubSeq(old_targets, 1, Len(old_targets) - 1)
     ELSE UNCHANGED <<stdout, old_targets>>
  /\ outcome' = "raised"
  /\ pc' = "done"
  /\ username' = "" /\ events' = <<>> /\ activities' = <<>> /\ features_df' = NoFrame
  /\ capture' = <<>> /\ written' = 0 /\ actions' = <<>> /\ mapped' = <<>>
  /\ UNCHANGED <<entry, calls, stdout_at_call, ghmap_log, callLog, exc, result,
                 returned, last_assign, ev_loads, act_loads>>

\* The caller assigns to an attribute of the result it was given (lines 17-18:
\* the dataclass is not frozen, so the assignment takes effect).
SetAttrFrozen ==
  /\ pc = "done" /\ entry = "predict_user_type" /\ outcome = "returned"
  /\ \E a \in Assignments : last_assign' = a
  /\ pc' = "assigned"
  /\ UNCHANGED <<entry, calls, username, events, stdout, old_targets, stdout_at_call,
                 capture, written, actions, mapped, activities, features_df,
                 ghmap_log, callLog, exc, outcome, result, returned, ev_loads, act_loads>>
SetAttr ==
  /\ pc = "done" /\ entry = "predict_user_type" /\ outcome = "returned"
  /\ \E a \in Assignments :
       /\ result' = <<[result[1] EXCEPT ![a.attr] = a.value]>>
       /\ last_assign' = a
  /\ pc' = "assigned"
  /\ UNCHANGED <<entry, calls, username, events, stdout, old_targets, stdout_at_call,
                 capture, written, actions, mapped, activities, features_df,
                 ghmap_log, callLog, exc, outcome, returned, ev_loads, act_loads>>

\* A process that calls either function, up to MaxCalls times.
Next ==
  \/ CallPredictUserType(MaxCalls)
  \/ CallComputeActivitySequences(MaxCalls)
  \/ LoadEventToAction
  \/ ActionMap(MaxPipelineChunks)
  \/ LoadActionToActivity
  \/ ActivityMap(MaxPipelineChunks)
  \/ FilterOutput
  \/ CheckActivities
  \/ ComputeFeatures
  \/ Predict
  \/ Propagate
  \/ SetAttr

Spec == Init /\ [][Next]_vars

\* A process whose stdout is the console and that calls
\* compute_activity_sequences once, with mappers that print up to MaxChunks
\* chunks.
InitNormalizer == Init /\ stdout = "console"

NextNormalizer ==
  \/ CallComputeActivitySequences(1)
  \/ LoadEventToAction
  \/ ActionMap(MaxChunks)
  \/ LoadActionToActivity
  \/ ActivityMap(MaxChunks)
  \/ FilterOutput
  \/ Propagate

SpecNormalizer == InitNormalizer /\ [][NextNormalizer]_vars

\* ----------------------------------------------------------------- claims
IsEmptyMap(f) == DOMAIN f = {}
PipelineSteps == {"load_event_to_action", "action_map", "load_action_to_activity",
                  "activity_map", "compute_features", "predict"}
Returned == pc = "done" /\ entry = "predict_user_type" /\ outcome = "returned"
\* compute_activity_sequences has returned its list to predict_user_type.
NormalizerReturned ==
  \/ pc \in AfterNormalizerPcs
  \/ pc = "raising" /\ callLog # <<>> /\ Last(callLog) \in {"compute_features", "predict"}

\* C1: when the normalizer returns an empty list, predict_user_type returns
\* exactly (username, "Unknown", "-", {}), whatever the events were.
C1_EmptyActivitiesGiveUnknown ==
  [][(pc = "check_activities" /\ activities = <<>>) =>
       /\ pc' = "done" /\ outcome' = "returned"
       /\ result' = <<[contributor |-> username, user_type |-> "Unknown",
                       confidence |-> "-", features |-> EmptyMap]>>]_vars
C1_Witness ==
  /\ Returned
  /\ callLog = <<"load_event_to_action", "action_map", "load_action_to_activity",
                 "activity_map">>
  /\ result[1].contributor = "bob" /\ result[1].user_type = "Unknown"
  /\ result[1].confidence = "-" /\ IsEmptyMap(result[1].features)

\* C2: a call whose events belong to two or more contributors invokes no
\* collaborator (no load, no mapper, no extractor, no classifier) and ends by
\* raising ValueError.
C2_MultiContributorFailsFast ==
  [][(entry = "predict_user_type" /\ pc \notin RestPcs /\ MultiContributor(events)) =>
       /\ callLog' = <<>>
       /\ (pc' = "done" => outcome' = "raised" /\ exc' = "ValueError")]_vars

\* C3: the user_type of every returned result is one of Bot, Human, Unknown,
\* Invalid.
C3_UserTypeInClosedSet ==
  Returned => result[1].user_type \in ResultTypes

\* C4 (as claimed): features is non-empty exactly when the classifier produced
\* the label.
C4_FeaturesIffClassified ==
  Returned => (~IsEmptyMap(result[1].features) <=> Count(callLog, "predict") = 1)
\* C4 (amended): the short-circuit result has empty features; a result built
\* after the classifier ran has the first row of the extractor's record as its
\* features when that record is non-empty, and empty features when it is empty.
C4_FeaturesFollowRecord ==
  [][/\ (pc = "check_activities" /\ pc' = "done") => IsEmptyMap(result'[1].features)
     /\ (pc = "predict" /\ pc' = "done") =>
          /\ ~IsEmptyMap(result'[1].features) <=>
               (features_df.columns # {} /\ Len(features_df.rows) > 0)
          /\ (features_df.columns # {} /\ Len(features_df.rows) > 0) =>
               result'[1].features = Head(features_df.rows)]_vars
C4_Witness ==
  /\ Returned /\ Count(callLog, "predict") = 1
  /\ result[1].user_type = "Bot" /\ IsEmptyMap(result[1].features)

\* C5 (as claimed): a call whose normalizer result is empty invokes neither the
\* extractor nor the classifier; one whose result is non-empty invokes each
\* exactly once, the extractor first.
C5_ExactlyOnceEach ==
  [][(entry = "predict_user_type" /\ NormalizerReturned /\ pc' = "done") =>
       IF activities = <<>>
       THEN Count(callLog', "compute_features") = 0 /\ Count(callLog', "predict") = 0
       ELSE /\ Count(callLog', "compute_features") = 1
            /\ Count(callLog', "predict") = 1
            /\ IndexOf(callLog', "compute_features") < IndexOf(callLog', "predict")]_vars
\* C5 (amended): empty result: neither is invoked. Non-empty result: the
\* extractor is invoked exactly once; the classifier exactly once and after the
\* extractor when the extractor returned, and not at all when it raised.
C5_OnceEachUnlessExtractorRaises ==
  [][(entry = "predict_user_type" /\ NormalizerReturned /\ pc' = "done") =>
       IF activities = <<>>
       THEN Count(callLog', "compute_features") = 0 /\ Count(callLog', "predict") = 0
       ELSE /\ Count(callLog', "compute_features") = 1
            /\ IF outcome' = "raised" /\ Last(callLog') = "compute_features"
               THEN Count(callLog', "predict") = 0
               ELSE /\ Count(callLog', "predict") = 1
                    /\ IndexOf(callLog', "compute_features")
                         < IndexOf(callLog', "predict")]_vars
C5_Witness ==
  /\ Returned
  /\ callLog = <<"load_event_to_action", "action_map", "load_action_to_activity",
                 "activity_map", "compute_features", "predict">>

\* C6: an exception raised by a load, a mapper, the extractor or the classifier
\* reaches the caller as it is: no result, no retry of the failing step, no
\* later step, no Unknown or Invalid result in its place.
C6_FailurePropagates ==
  [][pc = "raising" =>
       /\ exc = Raises(Last(callLog))
       /\ \A step \in PipelineSteps : Count(callLog, step) <= 1
       /\ pc' = "done" /\ outcome' = "raised" /\ exc' = exc
       /\ callLog' = callLog
       /\ result' = <<>> /\ returned' = <<>>]_vars
C6_Witness ==
  /\ pc = "done" /\ entry = "predict_user_type" /\ outcome = "raised"
  /\ exc = "ValueError" /\ Last(callLog) = "compute_features" /\ result = <<>>

\* C7: the redirection to the capture buffer is in place exactly while the
\* mapping block runs; on every exit, normal or by exception, sys.stdout is
\* what it was when the call began.
C7_StdoutRestored ==
  /\ pc \in BlockPcs => stdout = "capture"
  /\ (pc \in RestPcs \/ NormalizerReturned) =>
       (stdout = stdout_at_call /\ stdout # "capture" /\ old_targets = <<>>)
C7_Witness ==
  /\ pc = "done" /\ outcome = "raised" /\ exc = "KeyError"
  /\ stdout = "file" /\ stdout_at_call = "file"

\* C8 (as claimed): each table is loaded at most once by the process.
C8_LoadedOnce ==
  ev_loads <= 1 /\ act_loads <= 1
\* C8 (amended): the tables are loaded by every call: event_to_action once in
\* each call, action_to_activity once in each call that gets that far (so once
\* in every call that returns).
C8_LoadedEveryCall ==
  pc \in RestPcs =>
    /\ ev_loads = calls
    /\ act_loads <= calls
    /\ calls > 0 => Count(callLog, "load_event_to_action") = 1
    /\ outcome = "returned" => Count(callLog, "load_action_to_activity") = 1
    /\ Count(callLog, "load_action_to_activity") = (IF Len(callLog) >= 3 THEN 1 ELSE 0)
C8_Witness ==
  pc = "done" /\ outcome = "returned" /\ calls = 2 /\ ev_loads = 2 /\ act_loads = 2

\* C9 (as claimed): assigning to an attribute of a returned result does not
\* change the result.
C9_ResultImmutable ==
  [][(pc = "done" /\ pc' = "assigned") => result' = result]_vars
\* C9 (amended): ContributorResult is mutable: an assignment to an attribute of
\* a returned result sets that attribute and leaves the other three as they
\* were.
C9_AssignmentTakesEffect ==
  [][(pc = "done" /\ pc' = "assigned") =>
       /\ result'[1][last_assign'.attr] = last_assign'.value
       /\ \A b \in Attributes \ {last_assign'.attr} : result'[1][b] = result[1][b]]_vars
C9_Witness ==
  /\ pc = "assigned" /\ last_assign.attr = "contributor"
  /\ result[1].contributor = "mallory" /\ result[1].user_type = "Human"

\* What the claim says the message is made of.
BeginsWith(t, p) == Len(t) >= Len(p) /\ SubSeq(t, 1, Len(p)) = p
FromFirstMarker(line) ==
  LET starts == {i \in 1..Len(line) : BeginsWith(SubSeq(line, i, Len(line)), Marker)}
      first == CHOOSE i \in starts : \A j \in starts : i <= j
  IN SubSeq(line, first, Len(line))
MarkerLines(captured) ==
  SelectSeq(SplitLines(captured), LAMBDA l : \E i \in 1..Len(l) :
                                     BeginsWith(SubSeq(l, i, Len(l)), Marker))
RECURSIVE JoinLines(_)
JoinLines(ls) ==
  IF ls = <<>> THEN <<>>
  ELSE IF Len(ls) = 1 THEN Head(ls)
  ELSE Head(ls) \o <<10>> \o JoinLines(Tail(ls))
CutLines(captured) ==
  LET ls == MarkerLines(captured) IN [i \in 1..Len(ls) |-> FromFirstMarker(ls[i])]

\* C10 (as claimed): whenever compute_activity_sequences ends, it has emitted
\* one 'ghmap output' message made of the marker lines of the captured text, in
\* order, each cut at its first marker, if there is such a line, and no message
\* otherwise; and a returned list is the mapper's.
C10_LogIsMarkerLines ==
  [][((pc = "filter_output" \/ (pc = "raising" /\ old_targets # <<>>))
        /\ pc' \in {"done", "check_activities"}) =>
       /\ ghmap_log' = IF MarkerLines(capture) = <<>> THEN <<>>
                       ELSE <<JoinLines(CutLines(capture))>>
       /\ pc = "filter_output" =>
            (IF entry = "predict_user_type" THEN activities' ELSE returned') = mapped]_vars
\* C10 (amended): when the mapping block ends without raising, the message is
\* those cut lines joined by newlines with the whitespace at its end removed
\* (one message if there is a marker line, none otherwise), and the returned
\* list is the mapper's; when the block raises, no message is emitted.
C10_LogIsStrippedMarkerLines ==
  [][/\ pc = "filter_output" =>
          /\ ghmap_log' = IF MarkerLines(capture) = <<>> THEN <<>>
                          ELSE <<RStrip(JoinLines(CutLines(capture)))>>
          /\ (IF entry = "predict_user_type" THEN activities' ELSE returned') = mapped
     /\ pc = "raising" => ghmap_log' = <<>>]_vars
C10_Witness ==
  /\ pc = "done" /\ outcome = "returned" /\ Len(returned) = 2
  /\ ghmap_log = <<Marker \o <<32, 10>> \o Marker>>

====
